---- MODULE Spec2Model ----
(***************************************************************************)
(* Dynamic Options Swing (src/main.py): a single-threaded trading script.  *)
(* Money is modelled in integer cents (a price of 1.50 is 150), fractions  *)
(* in percent, so every comparison of the source is exact.                 *)
(***************************************************************************)
EXTENDS Integers, Sequences, FiniteSets, TLC

\* ---- configuration (src/main.py:31-44) ----
RISK_PER_TRADE == 2            \* 0.02, in percent
STOP_LOSS_PCT == 35            \* 0.35, in percent
TOP_N_STOCKS == 10
MIN_PRICE == 300               \* 3.0 dollars, in cents
MAX_PRICE == 5000              \* 50.0 dollars, in cents
MIN_VOLUME == 1000000
MIN_OPTION_VOLUME == 50
MIN_OPTION_PRICE == 50         \* 0.50 dollars, in cents
MIN_DAYS_TO_EXPIRY == 3
MAX_RETRIES == 3
INITIAL_RETRY_SLEEP == 3
STALE_DAYS == 3                \* the literal 3 of get_universe's staleness test

\* ---- bounds of the model ----
MaxRetriesArg == 4             \* safe_api_call is tried with max_retries in 0..MaxRetriesArg
MaxSleepArg == 3               \* and initial_sleep in 1..MaxSleepArg
MaxShortList == 3              \* asset lists of every kind up to this length
MaxAssets == 11                \* asset lists of passing assets up to this length
MaxContracts == 3              \* contract lists of every kind up to this length
MaxPositions == 2              \* position lists up to this length

\* an attribute the brokerage object does not carry
ABSENT == -1

\* the equities and option contracts of the trading model
Underlyings == {"AAA", "BBB"}

OptionSymbol(underlying, type) ==
    CASE underlying = "AAA" /\ type = "call" -> "AAA_C"
      [] underlying = "AAA" /\ type = "put" -> "AAA_P"
      [] underlying = "BBB" /\ type = "call" -> "BBB_C"
      [] underlying = "BBB" /\ type = "put" -> "BBB_P"

OptionSymbols == { OptionSymbol(u, t) : u \in Underlyings, t \in {"call", "put"} }

\* the contracts whose orders of earlier days are remembered
Tracked == {"AAA_C"}

VARIABLES
    symbols,            \* global `symbols`: the universe of the last trade cycle
    purchased_options,  \* global `purchased_options`
    dayBuys,            \* brokerage: accepted buy orders per contract since the last reset
    boughtBefore,       \* brokerage: tracked contracts with an accepted buy before the last reset
    lastOp,             \* the handler that ran last
    log,                \* what that run did: endpoint calls and notifications, in order
    input,              \* argument of the function under test (function specifications)
    result,             \* its result
    jobs,               \* schedule.jobs: the registered jobs, in registration order
    pc,                 \* where __main__ is: "start", "initial_trade", "initial_risk", "loop", "exit"
    held,               \* brokerage: quantity of the open position in the tracked contract
    sellOrders          \* brokerage: sell orders accepted for that position since it opened

vars == <<symbols, purchased_options, dayBuys, boughtBefore, lastOp, log, input, result,
          jobs, pc, held, sellOrders>>

schedVars == <<jobs, pc, held, sellOrders>>

progVars == <<symbols, purchased_options, dayBuys, boughtBefore, lastOp, log, schedVars>>

Min(a, b) == IF a < b THEN a ELSE b

Abs(x) == IF x < 0 THEN -x ELSE x

\* ------------------------------------------------------------------------
\* safe_api_call (src/main.py:96-113)
\* outcomes[i] is TRUE when the i-th invocation of fn returns, FALSE when it
\* raises.  The result records the invocations made, the sleeps taken, how
\* the call ended ("ok": returned, "raise": re-raised, "none": the loop ran
\* zero times and the function fell off its end) and the attempt whose
\* value or exception reached the caller.
\* ------------------------------------------------------------------------
\* safe_api_call with the delay never doubled
RECURSIVE SafeAttemptFlatSleep(_, _, _, _, _)
SafeAttemptFlatSleep(outcomes, max_retries, attempt, sleep, acc) ==
    IF attempt > max_retries
    THEN [acc EXCEPT !.result = "none"]
    ELSE LET called == [acc EXCEPT !.calls = @ + 1, !.attempt = attempt]
         IN  IF outcomes[attempt]
             THEN [called EXCEPT !.result = "ok"]
             ELSE IF attempt = max_retries
                  THEN [called EXCEPT !.result = "raise"]
                  ELSE SafeAttemptFlatSleep(outcomes, max_retries, attempt + 1, sleep,
                                            [called EXCEPT !.sleeps = Append(@, sleep)])

RECURSIVE SafeAttempt(_, _, _, _, _)
SafeAttempt(outcomes, max_retries, attempt, sleep, acc) ==
    IF attempt > max_retries
    THEN [acc EXCEPT !.result = "none"]
    ELSE LET called == [acc EXCEPT !.calls = @ + 1, !.attempt = attempt]
         IN  IF outcomes[attempt]
             THEN [called EXCEPT !.result = "ok"]
             ELSE IF attempt = max_retries
                  THEN [called EXCEPT !.result = "raise"]
                  ELSE SafeAttempt(outcomes, max_retries, attempt + 1, sleep * 2,
                                   [called EXCEPT !.sleeps = Append(@, sleep)])

SafeApiCall(outcomes, max_retries, initial_sleep) ==
    SafeAttempt(outcomes, max_retries, 1, initial_sleep,
                [calls |-> 0, sleeps |-> <<>>, result |-> "none", attempt |-> 0])

\* the first f invocations raise, every later one returns
FailsThenOk(f) == [i \in 1..MAX_RETRIES |-> i > f]

\* the retry loop running one attempt too many
ApiCallOneMore(f) ==
    SafeApiCall([i \in 1..(MAX_RETRIES + 1) |-> i > f], MAX_RETRIES + 1, INITIAL_RETRY_SLEEP)

\* a brokerage call made with the default retry arguments
ApiCall(f) == SafeApiCall(FailsThenOk(f), MAX_RETRIES, INITIAL_RETRY_SLEEP)

\* ------------------------------------------------------------------------
\* Specification of safe_api_call alone
\* ------------------------------------------------------------------------
RetryInputs ==
    UNION { { [outcomes |-> o, max_retries |-> n, initial_sleep |-> s] :
                o \in [1..n -> BOOLEAN], s \in 1..MaxSleepArg } : n \in 0..MaxRetriesArg }

ProgInit ==
    /\ symbols = <<>>
    /\ purchased_options = {}
    /\ dayBuys = [c \in OptionSymbols |-> 0]
    /\ boughtBefore = {}
    /\ lastOp = "idle"
    /\ log = <<>>
    /\ jobs = <<>>
    /\ pc = "start"
    /\ held = 0
    /\ sellOrders = 0

RetryInit ==
    /\ ProgInit
    /\ input \in RetryInputs
    /\ result = [pending |-> TRUE]

RetryCall ==
    /\ result = [pending |-> TRUE]
    /\ result' = SafeApiCall(input.outcomes, input.max_retries, input.initial_sleep)
    /\ UNCHANGED <<input, progVars>>

RetryNext == RetryCall

SpecRetry == RetryInit /\ [][RetryNext]_vars

RetryDone == "calls" \in DOMAIN result

\* index of the first invocation that returns, 0 when every one raises
FirstOk(o, n) ==
    IF \E i \in 1..n : o[i]
    THEN CHOOSE i \in 1..n : o[i] /\ \A j \in 1..(i - 1) : ~o[j]
    ELSE 0

RECURSIVE Pow2(_)
Pow2(k) == IF k = 0 THEN 1 ELSE 2 * Pow2(k - 1)

\* C6: safe_api_call invokes the operation at most max_retries times, returns
\* the result of the first invocation that succeeds and invokes nothing after
\* it, sleeps only between consecutive failed attempts (one sleep less than
\* the invocations made, so none after the last), the i-th sleep lasting
\* initial_sleep * 2^(i-1), and when every attempt fails re-raises the
\* failure of the last one.
C6_RetryPolicy ==
    RetryDone =>
        LET n == input.max_retries
            k == FirstOk(input.outcomes, n)
        IN  /\ result.calls <= n
            /\ k > 0 => /\ result.result = "ok"
                        /\ result.attempt = k
                        /\ result.calls = k
            /\ (k = 0 /\ n > 0) => /\ result.result = "raise"
                                   /\ result.attempt = n
                                   /\ result.calls = n
            /\ Len(result.sleeps) = IF result.calls = 0 THEN 0 ELSE result.calls - 1
            /\ \A i \in 1..Len(result.sleeps) :
                   result.sleeps[i] = input.initial_sleep * Pow2(i - 1)

\* every one of three attempts failed: two sleeps of 3 s and 6 s, then the raise
C6_Witness ==
    /\ RetryDone
    /\ input.max_retries = MAX_RETRIES
    /\ input.initial_sleep = INITIAL_RETRY_SLEEP
    /\ result.result = "raise"
    /\ result.calls = 3
    /\ result.sleeps = <<3, 6>>

\* ------------------------------------------------------------------------
\* Events of a run, in one shape:
\*   clock:    is_market_open answered (what = "open", "closed" or "failed";
\*             symbol = the text of the failure, "" when the query returned)
\*   pick:     choose_atm_call_put was called for the underlying `symbol`
\*   size:     a quantity was computed (what = "CALL"/"PUT", price = the quoted
\*             price, ref = max_invest)
\*   position: manage_risk read a position (what = asset class, price =
\*             current price, ref = average entry price)
\*   submit:   one invocation of api.submit_order (what = "buy"/"sell",
\*             ok = it returned)
\*   notify:   a message handed to send_discord_message (what = its kind,
\*             ok = it is a critical alert)
\*   account:  get_account returned in trade_logic (price = the cash read)
\*   raise:    an exception left the job (what = its type)
\*   fetch:    a data fetch gave nothing after its retries (what = "assets",
\*             "positions", "account", "contracts" or "bars"; symbol = the
\*             underlying it was for)
\*   listed:   list_positions returned in manage_risk (qty = positions listed)
\*   error:    manage_risk caught an exception while handling the position
\*             `symbol` and printed it
\* ------------------------------------------------------------------------
Event(ev, what, symbol, qty, ok, price, ref) ==
    [ev |-> ev, what |-> what, symbol |-> symbol, qty |-> qty, ok |-> ok,
     price |-> price, ref |-> ref]

Notify(kind, symbol) == Event("notify", kind, symbol, 0, FALSE, 0, 0)

Critical(kind) == Event("notify", kind, "", 0, TRUE, 0, 0)

FetchFailed(what, symbol) == Event("fetch", what, symbol, 0, FALSE, 0, 0)

\* ------------------------------------------------------------------------
\* get_universe (src/main.py:158-203)
\* An asset carries what list_assets and the bar fetch give for it: bars is
\* "ok" or "none" (fetch_bars_with_backoff returned None or an empty frame),
\* close and volume are those of the last bar, age_hours is now minus the
\* last bar's time.
\* ------------------------------------------------------------------------
\* timedelta.days: whole days elapsed
AgeDays(age_hours) == age_hours \div 24

IsTradable(a) == a.tradable /\ a.exchange \in {"NASDAQ", "NYSE"}

\* the price band read with an exclusive upper end
PassesFiltersOpenBand(a) ==
    /\ a.bars = "ok"
    /\ ~(AgeDays(a.age_hours) > STALE_DAYS)
    /\ MIN_PRICE <= a.close /\ a.close < MAX_PRICE
    /\ a.volume >= MIN_VOLUME

PassesFilters(a) ==
    /\ a.bars = "ok"
    /\ ~(AgeDays(a.age_hours) > STALE_DAYS)
    /\ MIN_PRICE <= a.close /\ a.close <= MAX_PRICE
    /\ a.volume >= MIN_VOLUME

Candidates(assets) ==
    SelectSeq(SelectSeq(assets, IsTradable), PassesFilters)

\* sorted(..., key=volume, reverse=True): stable, equal volumes keep their order
RECURSIVE InsertByVolume(_, _)
InsertByVolume(sorted, a) ==
    IF sorted = <<>> THEN <<a>>
    ELSE IF Head(sorted).volume >= a.volume
         THEN <<Head(sorted)>> \o InsertByVolume(Tail(sorted), a)
         ELSE <<a>> \o sorted

RECURSIVE SortByVolumeDesc(_)
SortByVolumeDesc(seq) ==
    IF seq = <<>> THEN <<>>
    ELSE InsertByVolume(SortByVolumeDesc(SubSeq(seq, 1, Len(seq) - 1)), seq[Len(seq)])

TopSlice(sorted) == SubSeq(sorted, 1, Min(Len(sorted), TOP_N_STOCKS))

\* fails: invocations of list_assets that raise before one returns
GetUniverse(fails, assets) ==
    IF ApiCall(fails).result # "ok"
    THEN [chosen |-> <<>>,
          notes |-> <<FetchFailed("assets", ""), Critical("Failed to list assets")>>]
    ELSE LET top == TopSlice(SortByVolumeDesc(Candidates(assets)))
             chosen == [i \in 1..Len(top) |-> top[i].symbol]
         IN  [chosen |-> chosen,
              notes |-> IF chosen # <<>> THEN <<Notify("Universe updated", "")>> ELSE <<>>]

\* an asset object that carries no `symbol` attribute
NoSymbol == ""

\* `sym = a.symbol` (src/main.py:177) stands outside the per-symbol try: a
\* tradable asset without the attribute makes get_universe raise
GetUniverseRaises(fails, assets) ==
    /\ ApiCall(fails).result = "ok"
    /\ \E i \in 1..Len(assets) : IsTradable(assets[i]) /\ assets[i].symbol = NoSymbol

\* ------------------------------------------------------------------------
\* Specification of get_universe alone
\* ------------------------------------------------------------------------
LoAsset ==
    [tradable |-> TRUE, exchange |-> "NASDAQ", bars |-> "ok",
     close |-> MIN_PRICE, volume |-> MIN_VOLUME, age_hours |-> 95]

HiAsset ==
    [tradable |-> TRUE, exchange |-> "NYSE", bars |-> "ok",
     close |-> MAX_PRICE, volume |-> 2 * MIN_VOLUME, age_hours |-> 0]

AssetKinds ==
    { LoAsset, HiAsset,
      [LoAsset EXCEPT !.close = MIN_PRICE - 1],
      [LoAsset EXCEPT !.close = MAX_PRICE + 1],
      [LoAsset EXCEPT !.volume = MIN_VOLUME - 1],
      [LoAsset EXCEPT !.age_hours = 96],
      [HiAsset EXCEPT !.tradable = FALSE],
      [HiAsset EXCEPT !.exchange = "OTC"],
      [HiAsset EXCEPT !.bars = "none"] }

\* an asset list from kinds: the symbol of an asset is its place in the list
Named(kinds) ==
    [i \in 1..Len(kinds) |->
        [symbol |-> i, tradable |-> kinds[i].tradable, exchange |-> kinds[i].exchange,
         bars |-> kinds[i].bars, close |-> kinds[i].close, volume |-> kinds[i].volume,
         age_hours |-> kinds[i].age_hours]]

\* short lists of every kind of asset, long lists of assets that pass
UniverseInputs ==
    UNION ( { [1..n -> AssetKinds] : n \in 0..MaxShortList }
            \cup { [1..n -> {LoAsset, HiAsset}] : n \in (MaxShortList + 1)..MaxAssets } )

UniverseInit ==
    /\ ProgInit
    /\ \E kinds \in UniverseInputs, f \in {0, MAX_RETRIES} :
          input = [fails |-> f, assets |-> Named(kinds)]
    /\ result = [pending |-> TRUE]

UniverseCall ==
    /\ result = [pending |-> TRUE]
    /\ result' = GetUniverse(input.fails, input.assets)
    /\ UNCHANGED <<input, progVars>>

UniverseNext == UniverseCall

SpecUniverse == UniverseInit /\ [][UniverseNext]_vars

UniverseDone == "chosen" \in DOMAIN result

\* an equity candidate: a tradable asset of the two exchanges with a last bar
IsCandidate(a) == IsTradable(a) /\ a.bars = "ok"

Survives(a) ==
    /\ IsCandidate(a)
    /\ MIN_PRICE <= a.close /\ a.close <= MAX_PRICE
    /\ a.volume >= MIN_VOLUME
    /\ a.age_hours < 24 * (STALE_DAYS + 1)

\* place of the i-th asset among the survivors: by volume descending, then
\* by place in the list
Rank(assets, i) ==
    1 + Cardinality({ j \in 1..Len(assets) :
            /\ Survives(assets[j])
            /\ \/ assets[j].volume > assets[i].volume
               \/ assets[j].volume = assets[i].volume /\ j < i })

\* C7: a candidate survives get_universe's filter iff its last close is in
\* [MIN_PRICE, MAX_PRICE], its last volume is >= MIN_VOLUME and its last bar
\* is at most 3 whole days old; the returned universe is the first
\* TOP_N_STOCKS survivors by volume descending, equal volumes in list order.
C7_UniverseFilterAndRank ==
    (UniverseDone /\ input.fails = 0) =>
        LET assets == input.assets
            survivors == { i \in 1..Len(assets) : Survives(assets[i]) }
        IN  /\ Len(result.chosen) = Min(Cardinality(survivors), TOP_N_STOCKS)
            /\ \A i \in 1..Len(assets) :
                   (\E r \in 1..Len(result.chosen) : result.chosen[r] = assets[i].symbol)
                       <=> (i \in survivors /\ Rank(assets, i) <= TOP_N_STOCKS)
            /\ \A i \in survivors :
                   Rank(assets, i) <= TOP_N_STOCKS
                       => result.chosen[Rank(assets, i)] = assets[i].symbol

\* eleven survivors with a tie in volume: the eleventh by rank is cut
C7_Witness ==
    /\ UniverseDone
    /\ input.fails = 0
    /\ Len(input.assets) = TOP_N_STOCKS + 1
    /\ \A i \in 1..Len(input.assets) : Survives(input.assets[i])
    /\ input.assets[1].volume = MIN_VOLUME
    /\ input.assets[2].volume = MIN_VOLUME
    /\ input.assets[3].volume = 2 * MIN_VOLUME
    /\ Len(result.chosen) = TOP_N_STOCKS
    /\ result.chosen[1] = 3
    /\ input.assets[TOP_N_STOCKS + 1].volume = MIN_VOLUME
    /\ \A r \in 1..TOP_N_STOCKS : result.chosen[r] # TOP_N_STOCKS + 1

\* ------------------------------------------------------------------------
\* choose_atm_call_put (src/main.py:208-259)
\* A contract carries symbol, option_type, strike_price, exp_days (the days
\* from today to its expiration date), volume, last_trade_price, ask_price;
\* ABSENT stands for an attribute that is missing or None.  The objects
\* carry no last_price attribute.  An absent slot of the result is the empty
\* sequence, a present one a sequence of one contract.
\* ------------------------------------------------------------------------
\* str.lower() on the option types the brokerage sends
Lower(t) ==
    CASE t = "CALL" -> "call"
      [] t = "PUT" -> "put"
      [] OTHER -> t

\* last_trade_price or ask_price or last_price: the first that is not falsy
FilterPrice(c) ==
    IF c.last_trade_price # ABSENT /\ c.last_trade_price # 0 THEN c.last_trade_price
    ELSE IF c.ask_price # ABSENT /\ c.ask_price # 0 THEN c.ask_price
    ELSE ABSENT

\* int(getattr(c, "volume", 0) or 0)
FilterVolume(c) == IF c.volume = ABSENT THEN 0 ELSE c.volume

IsValidContract(c) ==
    /\ c.exp_days # ABSENT
    /\ ~(c.exp_days < MIN_DAYS_TO_EXPIRY)
    /\ FilterPrice(c) # ABSENT
    /\ ~(FilterPrice(c) < MIN_OPTION_PRICE \/ FilterVolume(c) < MIN_OPTION_VOLUME)

IsCall(c) == Lower(c.option_type) = "call"

IsPut(c) == Lower(c.option_type) = "put"

StrikeDistance(c, underlying_price) == Abs(c.strike_price - underlying_price)

\* a minimum that keeps the last of equally near contracts
RECURSIVE MinByDistanceLast(_, _)
MinByDistanceLast(seq, underlying_price) ==
    IF Len(seq) = 1 THEN seq[1]
    ELSE LET best == MinByDistanceLast(SubSeq(seq, 1, Len(seq) - 1), underlying_price)
             last == seq[Len(seq)]
         IN  IF StrikeDistance(last, underlying_price) <= StrikeDistance(best, underlying_price)
             THEN last ELSE best

\* min(seq, key=distance): the first of the nearest contracts
RECURSIVE MinByDistance(_, _)
MinByDistance(seq, underlying_price) ==
    IF Len(seq) = 1 THEN seq[1]
    ELSE LET best == MinByDistance(SubSeq(seq, 1, Len(seq) - 1), underlying_price)
             last == seq[Len(seq)]
         IN  IF StrikeDistance(last, underlying_price) < StrikeDistance(best, underlying_price)
             THEN last ELSE best

NoSelection == [call |-> <<>>, put |-> <<>>, price |-> ABSENT]

\* fetched: "ok" or "none" (the fetch returned None after its retries)
ChooseAtm(fetched, contracts, bars, close) ==
    IF fetched # "ok" \/ contracts = <<>> THEN NoSelection
    ELSE IF bars # "ok" THEN NoSelection
    ELSE LET valid_contracts == SelectSeq(contracts, IsValidContract)
             calls == SelectSeq(valid_contracts, IsCall)
             puts == SelectSeq(valid_contracts, IsPut)
         IN  IF valid_contracts = <<>> \/ calls = <<>> \/ puts = <<>>
             THEN [call |-> <<>>, put |-> <<>>, price |-> close]
             ELSE [call |-> <<MinByDistance(calls, close)>>,
                   put |-> <<MinByDistance(puts, close)>>,
                   price |-> close]

\* ------------------------------------------------------------------------
\* Specification of choose_atm_call_put alone
\* ------------------------------------------------------------------------
RefPrice == 100 * 100           \* underlying close of 100.00

OkContract(type, strike) ==
    [option_type |-> type, strike_price |-> strike, exp_days |-> MIN_DAYS_TO_EXPIRY,
     volume |-> MIN_OPTION_VOLUME, last_trade_price |-> MIN_OPTION_PRICE, ask_price |-> ABSENT]

AtTheMoney == OkContract("call", RefPrice)

ContractKinds ==
    { OkContract("call", 9800), OkContract("call", 10200), OkContract("call", 9900),
      OkContract("put", 9800), OkContract("put", 10200),
      OkContract("other", RefPrice),
      [OkContract("CALL", RefPrice) EXCEPT !.last_trade_price = 0, !.ask_price = MIN_OPTION_PRICE],
      [AtTheMoney EXCEPT !.exp_days = MIN_DAYS_TO_EXPIRY - 1],
      [AtTheMoney EXCEPT !.exp_days = ABSENT],
      [AtTheMoney EXCEPT !.volume = MIN_OPTION_VOLUME - 1],
      [AtTheMoney EXCEPT !.last_trade_price = MIN_OPTION_PRICE - 1, !.ask_price = MIN_OPTION_PRICE],
      [AtTheMoney EXCEPT !.last_trade_price = ABSENT] }

\* calls at strikes 95, 98, 102, 110 and one put, all passing the filter
ScenarioB ==
    <<OkContract("call", 9500), OkContract("call", 9800), OkContract("call", 10200),
      OkContract("call", 11000), OkContract("put", 10200)>>

NamedContracts(kinds) ==
    [i \in 1..Len(kinds) |->
        [symbol |-> i, option_type |-> kinds[i].option_type,
         strike_price |-> kinds[i].strike_price, exp_days |-> kinds[i].exp_days,
         volume |-> kinds[i].volume, last_trade_price |-> kinds[i].last_trade_price,
         ask_price |-> kinds[i].ask_price]]

AtmInputs == UNION { [1..n -> ContractKinds] : n \in 0..MaxContracts } \cup {ScenarioB}

AtmInit ==
    /\ ProgInit
    /\ \E kinds \in AtmInputs, f \in {"ok", "none"}, b \in {"ok", "none"} :
          input = [fetched |-> f, contracts |-> NamedContracts(kinds), bars |-> b,
                   close |-> RefPrice]
    /\ result = [pending |-> TRUE]

AtmCall ==
    /\ result = [pending |-> TRUE]
    /\ result' = ChooseAtm(input.fetched, input.contracts, input.bars, input.close)
    /\ UNCHANGED <<input, progVars>>

AtmNext == AtmCall

SpecAtm == AtmInit /\ [][AtmNext]_vars

AtmDone == "call" \in DOMAIN result

\* the filter as the claim words it: expiry, price and volume each at least
\* its minimum, the price being the last traded price, else the ask
QuotedForFilter(c) ==
    IF c.last_trade_price > 0 THEN c.last_trade_price ELSE c.ask_price

Qualifies(c, type) ==
    /\ c.option_type \in (IF type = "call" THEN {"call", "CALL"} ELSE {"put", "PUT"})
    /\ c.exp_days >= MIN_DAYS_TO_EXPIRY
    /\ QuotedForFilter(c) >= MIN_OPTION_PRICE
    /\ c.volume >= MIN_OPTION_VOLUME

\* slot holds the first contract of its type, in input order, that qualifies
\* and is nearest to the reference price
IsNearestFirst(slot, contracts, type, ref) ==
    /\ Len(slot) = 1
    /\ \E i \in 1..Len(contracts) :
          /\ slot[1] = contracts[i]
          /\ Qualifies(contracts[i], type)
          /\ \A j \in 1..Len(contracts) :
                Qualifies(contracts[j], type) =>
                    \/ StrikeDistance(contracts[j], ref) > StrikeDistance(contracts[i], ref)
                    \/ StrikeDistance(contracts[j], ref) = StrikeDistance(contracts[i], ref) /\ j >= i

HasQualifying(contracts, type) ==
    \E i \in 1..Len(contracts) : Qualifies(contracts[i], type)

\* the contract list and the reference bar were both obtained
AtmServed == AtmDone /\ input.fetched = "ok" /\ input.bars = "ok"

AtmBothSlots ==
    (HasQualifying(input.contracts, "call") /\ HasQualifying(input.contracts, "put")) =>
        /\ IsNearestFirst(result.call, input.contracts, "call", input.close)
        /\ IsNearestFirst(result.put, input.contracts, "put", input.close)
        /\ result.price = input.close

AtmNoSlots ==
    /\ result.call = <<>>
    /\ result.put = <<>>
    /\ result.price = input.close

IsMarketOpenFailOpen(clock) ==
    IF ApiCall(clock.fails).result = "ok"
    THEN [value |-> clock.is_open,
          log |-> <<Event("clock", IF clock.is_open THEN "open" ELSE "closed", "", 0, FALSE, 0, 0)>>]
    ELSE [value |-> TRUE,
          log |-> <<Event("clock", "failed", clock.err, 0, FALSE, 0, 0)>>]

\* a clock gate that alerts on every failure of the query
IsMarketOpenAlertAll(clock) ==
    IF ApiCall(clock.fails).result = "ok"
    THEN [value |-> clock.is_open,
          log |-> <<Event("clock", IF clock.is_open THEN "open" ELSE "closed", "", 0, FALSE, 0, 0)>>]
    ELSE [value |-> FALSE,
          log |-> <<Event("clock", "failed", clock.err, 0, FALSE, 0, 0),
                    Critical("401 Unauthorized from Alpaca during get_clock()")>>]

\* "401" in str(e): the failure's text is "401" or "timeout"
IsMarketOpen(clock) ==
    IF ApiCall(clock.fails).result = "ok"
    THEN [value |-> clock.is_open,
          log |-> <<Event("clock", IF clock.is_open THEN "open" ELSE "closed", "", 0, FALSE, 0, 0)>>]
    ELSE [value |-> FALSE,
          log |-> <<Event("clock", "failed", clock.err, 0, FALSE, 0, 0)>>
                  \o (IF clock.err = "401"
                      THEN <<Critical("401 Unauthorized from Alpaca during get_clock()")>>
                      ELSE <<>>)]

\* ------------------------------------------------------------------------
\* trade_logic (src/main.py:264-330)
\* Cash is in cents; max_invest = cash * RISK_PER_TRADE is kept in
\* hundredths of a cent (cents times percent), so nothing is rounded.
\* ------------------------------------------------------------------------
MaxInvest(cash) == cash * RISK_PER_TRADE

\* getattr(c, "ask_price", getattr(c, "last_trade_price", getattr(c, "last_price", 0)))
QuotedPrice(c) ==
    IF c.ask_price # ABSENT THEN c.ask_price
    ELSE IF c.last_trade_price # ABSENT THEN c.last_trade_price
    ELSE 0

\* a quantity rounded up instead of down
QuantityCeil(max_invest, price) ==
    IF price > 0 THEN (max_invest + price * 100 * 100 - 1) \div (price * 100 * 100) ELSE 0

\* int(max_invest / (price * 100)) if price > 0 else 0
Quantity(max_invest, price) ==
    IF price > 0 THEN max_invest \div (price * 100 * 100) ELSE 0

\* the invocations of api.submit_order that one safe_api_call makes
SubmitEvents(side, symbol, qty, r) ==
    [i \in 1..r.calls |->
        Event("submit", side, symbol, qty, i = r.calls /\ r.result = "ok", 0, 0)]

\* a buy that ignores purchased_options
BuyOrderNoDedup(st, side, symbol, qty, fails) ==
    IF qty >= 1
    THEN LET r == ApiCall(fails)
             submitted == st.log \o SubmitEvents("buy", symbol, qty, r)
         IN  IF r.result = "ok"
             THEN [purchased |-> st.purchased \cup {symbol},
                   accepted |-> Append(st.accepted, symbol),
                   log |-> Append(submitted, Notify("Bought " \o side, symbol))]
             ELSE [st EXCEPT !.log = Append(submitted, Notify("OrderError " \o side, symbol))]
    ELSE st

\* a buy that marks the contract purchased before the order is accepted
BuyOrderAddFirst(st, side, symbol, qty, fails) ==
    IF qty >= 1 /\ symbol \notin st.purchased
    THEN LET r == ApiCall(fails)
             submitted == st.log \o SubmitEvents("buy", symbol, qty, r)
         IN  IF r.result = "ok"
             THEN [purchased |-> st.purchased \cup {symbol},
                   accepted |-> Append(st.accepted, symbol),
                   log |-> Append(submitted, Notify("Bought " \o side, symbol))]
             ELSE [st EXCEPT !.purchased = @ \cup {symbol},
                             !.log = Append(submitted, Notify("OrderError " \o side, symbol))]
    ELSE st

\* BUY CALL / BUY PUT (src/main.py:302-326).  st carries purchased_options,
\* the orders the brokerage accepted in this run and the log of the run.
BuyOrder(st, side, symbol, qty, fails) ==
    IF qty >= 1 /\ symbol \notin st.purchased
    THEN LET r == ApiCall(fails)
             submitted == st.log \o SubmitEvents("buy", symbol, qty, r)
         IN  IF r.result = "ok"
             THEN [purchased |-> st.purchased \cup {symbol},
                   accepted |-> Append(st.accepted, symbol),
                   log |-> Append(submitted, Notify("Bought " \o side, symbol))]
             ELSE [st EXCEPT !.log = Append(submitted, Notify("OrderError " \o side, symbol))]
    ELSE st

\* one pass of the loop body for the underlying sym (src/main.py:285-326)
\* env.chain[sym]: what the option and bar fetches give for sym;
\* env.fails[c]: invocations of submit_order for contract c that raise
TradeSymbol(st, sym, max_invest, env) ==
    LET ch == env.chain[sym]
        sel == ChooseAtm(ch.fetched, ch.contracts, ch.bars, ch.close)
        picked == [st EXCEPT !.log = Append(@, Event("pick", "", sym, 0, FALSE, 0, 0))
                                       \o (IF ch.fetched # "ok"
                                           THEN <<FetchFailed("contracts", sym)>>
                                           ELSE IF ch.contracts # <<>> /\ ch.bars # "ok"
                                           THEN <<FetchFailed("bars", sym)>>
                                           ELSE <<>>)]
    IN  IF sel.call = <<>> \/ sel.put = <<>> THEN picked
        ELSE LET call == sel.call[1]
                 put == sel.put[1]
                 call_price == QuotedPrice(call)
                 put_price == QuotedPrice(put)
             IN  IF call_price <= 0 \/ put_price <= 0 THEN picked
                 ELSE LET call_qty == Quantity(max_invest, call_price)
                          put_qty == Quantity(max_invest, put_price)
                          sized == [picked EXCEPT !.log = @ \o
                                      <<Event("size", "CALL", call.symbol, call_qty, FALSE,
                                              call_price, max_invest),
                                        Event("size", "PUT", put.symbol, put_qty, FALSE,
                                              put_price, max_invest)>>]
                          afterCall == BuyOrder(sized, "CALL", call.symbol, call_qty,
                                                env.fails[call.symbol])
                      IN  BuyOrder(afterCall, "PUT", put.symbol, put_qty,
                                   env.fails[put.symbol])

\* a loop that gives up at the first order that fails
RECURSIVE TradeLoopStopOnError(_, _, _, _, _)
TradeLoopStopOnError(st, syms, i, max_invest, env) ==
    IF i > Len(syms) THEN st
    ELSE LET next == TradeSymbol(st, syms[i], max_invest, env)
         IN  IF \E k \in (Len(st.log) + 1)..Len(next.log) :
                    next.log[k].ev = "submit" /\ ~next.log[k].ok
             THEN next
             ELSE TradeLoopStopOnError(next, syms, i + 1, max_invest, env)

RECURSIVE SumOver(_, _)
SumOver(S, f) ==
    IF S = {} THEN 0
    ELSE LET x == CHOOSE y \in S : TRUE IN f[x] + SumOver(S \ {x}, f)

\* what the accepted buys of a log cost: quantity * quoted price * 100, in
\* the unit of max_invest
Committed(lg) ==
    LET buys == { j \in 1..Len(lg) : lg[j].ev = "submit" /\ lg[j].what = "buy" /\ lg[j].ok }
        quoted(c) == lg[CHOOSE k \in 1..Len(lg) : lg[k].ev = "size" /\ lg[k].symbol = c].price
    IN  SumOver(buys, [j \in buys |-> lg[j].qty * quoted(lg[j].symbol) * 100 * 100])

\* a loop that takes what was spent off the budget of the next symbols
RECURSIVE TradeLoopShrinking(_, _, _, _, _)
TradeLoopShrinking(st, syms, i, max_invest, env) ==
    IF i > Len(syms) THEN st
    ELSE LET next == TradeSymbol(st, syms[i], max_invest, env)
         IN  TradeLoopShrinking(next, syms, i + 1,
                                max_invest - (Committed(next.log) - Committed(st.log)), env)

\* a loop that a symbol without data ends
RECURSIVE TradeLoopStopOnSkip(_, _, _, _, _)
TradeLoopStopOnSkip(st, syms, i, max_invest, env) ==
    IF i > Len(syms) THEN st
    ELSE LET next == TradeSymbol(st, syms[i], max_invest, env)
         IN  IF next.log[Len(next.log)].ev = "fetch" THEN next
             ELSE TradeLoopStopOnSkip(next, syms, i + 1, max_invest, env)

\* for sym in symbols (src/main.py:284)
RECURSIVE TradeLoop(_, _, _, _, _)
TradeLoop(st, syms, i, max_invest, env) ==
    IF i > Len(syms) THEN st
    ELSE TradeLoop(TradeSymbol(st, syms[i], max_invest, env), syms, i + 1, max_invest, env)

\* ------------------------------------------------------------------------
\* manage_risk (src/main.py:335-361)
\* A position carries asset_class, symbol, qty, avg_entry_price and
\* current_price (cents); an avg_entry_price of ABSENT is a field float()
\* cannot read.  fails[symbol]: invocations of submit_order for the sell of
\* that position that raise.
\* ------------------------------------------------------------------------
\* a stop that also fires exactly at the boundary
StopLossHitInclusive(entry_price, current_price) ==
    current_price * 100 <= entry_price * (100 - STOP_LOSS_PCT)

\* current_price < entry_price * (1 - STOP_LOSS_PCT)
StopLossHit(entry_price, current_price) ==
    current_price * 100 < entry_price * (100 - STOP_LOSS_PCT)

RiskError(symbol) == Event("error", "RiskError", symbol, 0, FALSE, 0, 0)

\* the loop body for one position (src/main.py:348-361)
RiskPosition(lg, pos, fails) ==
    LET seen == Append(lg, Event("position", pos.asset_class, pos.symbol, pos.qty, FALSE,
                                 pos.current_price, pos.avg_entry_price))
    IN  IF pos.asset_class # "option" THEN seen
        ELSE IF pos.avg_entry_price = ABSENT THEN Append(seen, RiskError(pos.symbol))
        ELSE IF StopLossHit(pos.avg_entry_price, pos.current_price)
             THEN LET r == ApiCall(fails[pos.symbol])
                      submitted == seen \o SubmitEvents("sell", pos.symbol, Abs(pos.qty), r)
                  IN  IF r.result = "ok"
                      THEN Append(submitted, Notify("STOP-LOSS triggered", pos.symbol))
                      ELSE Append(submitted, RiskError(pos.symbol))
             ELSE seen

\* a loop that the first error ends
RECURSIVE RiskLoopStopOnError(_, _, _, _)
RiskLoopStopOnError(lg, positions, i, fails) ==
    IF i > Len(positions) THEN lg
    ELSE LET next == RiskPosition(lg, positions[i], fails)
         IN  IF next[Len(next)].ev = "error" THEN next
             ELSE RiskLoopStopOnError(next, positions, i + 1, fails)

RECURSIVE RiskLoop(_, _, _, _)
RiskLoop(lg, positions, i, fails) ==
    IF i > Len(positions) THEN lg
    ELSE RiskLoop(RiskPosition(lg, positions[i], fails), positions, i + 1, fails)

\* ------------------------------------------------------------------------
\* What the brokerage may answer
\* ------------------------------------------------------------------------
ClockOutcomes ==
    { [fails |-> 0, is_open |-> TRUE, err |-> ""],
      [fails |-> 0, is_open |-> FALSE, err |-> ""],
      [fails |-> MAX_RETRIES, is_open |-> TRUE, err |-> "401"],
      [fails |-> MAX_RETRIES, is_open |-> TRUE, err |-> "timeout"] }

\* cash of 0, 10,000.00 and 20,000.00
AccountOutcomes ==
    { [fails |-> f, cash |-> c] : f \in {0, MAX_RETRIES}, c \in {0, 1000000, 2000000} }

\* invocations of a data call that raise: none, or every one
CallFailures == {0, MAX_RETRIES}

\* invocations of a buy submission that raise: none, the first, or every one
OrderFailures == {0, 1, MAX_RETRIES}

\* list_assets answers BBB then AAA; each passes the filters or trades too thinly
WithSymbol(a, sym) ==
    [symbol |-> sym, tradable |-> a.tradable, exchange |-> a.exchange, bars |-> a.bars,
     close |-> a.close, volume |-> a.volume, age_hours |-> a.age_hours]

AssetLists ==
    { <<WithSymbol(b, "BBB"), WithSymbol(a, "AAA")>> :
        b \in {LoAsset, [LoAsset EXCEPT !.volume = MIN_VOLUME - 1]},
        a \in {HiAsset, [HiAsset EXCEPT !.volume = MIN_VOLUME - 1]} }

\* a listed contract of underlying u quoted at price (cents)
Listed(u, type, price) ==
    [symbol |-> OptionSymbol(u, type), option_type |-> type, strike_price |-> MIN_PRICE,
     exp_days |-> MIN_DAYS_TO_EXPIRY, volume |-> MIN_OPTION_VOLUME,
     last_trade_price |-> price, ask_price |-> price]

\* option chains of u: none listed; call and put at 1.50; call at 1.50, put
\* at 3.00; the contract fetch failing; the bar fetch failing
Chains(u) ==
    { [fetched |-> "ok", contracts |-> cs, bars |-> "ok", close |-> MIN_PRICE] :
        cs \in { <<>>,
                 <<Listed(u, "call", 150), Listed(u, "put", 150)>>,
                 <<Listed(u, "call", 150), Listed(u, "put", 300)>> } }
    \cup { [fetched |-> "none", contracts |-> <<>>, bars |-> "ok", close |-> MIN_PRICE],
           [fetched |-> "ok", contracts |-> <<Listed(u, "call", 150), Listed(u, "put", 150)>>,
            bars |-> "none", close |-> MIN_PRICE] }

SeqRange(seq) == { seq[i] : i \in 1..Len(seq) }

\* a chain for each underlying of syms
RECURSIVE ChainsOf(_)
ChainsOf(syms) ==
    IF syms = <<>> THEN { [u \in {} |-> 0] }
    ELSE { (Head(syms) :> c) @@ rest : c \in Chains(Head(syms)), rest \in ChainsOf(Tail(syms)) }

\* the contracts that can be ordered from the chains
Listings(chain) ==
    { chain[u].contracts[i].symbol :
        u \in { v \in DOMAIN chain : chain[v].contracts # <<>> /\ chain[v].bars = "ok" },
        i \in 1..2 }

\* positions the brokerage may report: options entered at 10.00 now at 6.49,
\* 6.50 and 10.00, an option whose entry price cannot be read, and a share
\* position that lost more than the stop
PositionKinds ==
    { [asset_class |-> "option", avg_entry_price |-> 1000, current_price |-> 649],
      [asset_class |-> "option", avg_entry_price |-> 1000, current_price |-> 650],
      [asset_class |-> "option", avg_entry_price |-> 1000, current_price |-> 1000],
      [asset_class |-> "option", avg_entry_price |-> ABSENT, current_price |-> 649],
      [asset_class |-> "us_equity", avg_entry_price |-> 1000, current_price |-> 100] }

PositionSymbols == <<"AAA_C", "BBB_P", "AAA_P", "BBB_C">>

PositionLists ==
    { [i \in 1..Len(kinds) |->
         [symbol |-> PositionSymbols[i], qty |-> 2, asset_class |-> kinds[i].asset_class,
          avg_entry_price |-> kinds[i].avg_entry_price,
          current_price |-> kinds[i].current_price]] :
      kinds \in UNION { [1..n -> PositionKinds] : n \in 0..MaxPositions } }

\* ------------------------------------------------------------------------
\* The program: the handlers the scheduler runs, one at a time
\* ------------------------------------------------------------------------
Init ==
    /\ ProgInit
    /\ input = <<>>
    /\ result = <<>>

\* what a run leaves behind
Ran(op, lg) ==
    /\ lastOp' = op
    /\ log' = lg

\* the orders of a run reach the brokerage
Accept(accepted) ==
    dayBuys' = [c \in OptionSymbols |->
                  dayBuys[c] + Cardinality({ k \in 1..Len(accepted) : accepted[k] = c })]

\* trade_logic (src/main.py:264-330) run as `op` when list_assets answers
\* one of Lists
TradeCycle(op, Lists) ==
    \E clock \in ClockOutcomes :
      LET open == IsMarketOpen(clock)
      IN  IF ~open.value
          THEN /\ Ran(op, open.log)
               /\ UNCHANGED <<symbols, purchased_options, dayBuys>>
          ELSE \E account \in AccountOutcomes :
                 LET read == Append(open.log,
                                    Event("account", "", "", 0, FALSE, account.cash, 0))
                 IN  IF ApiCall(account.fails).result # "ok"
                     THEN /\ Ran(op, Append(open.log, Critical("Trade logic failure")))
                          /\ UNCHANGED <<symbols, purchased_options, dayBuys>>
                     ELSE IF account.cash <= 0
                     THEN /\ Ran(op, read)
                          /\ UNCHANGED <<symbols, purchased_options, dayBuys>>
                     ELSE \E lf \in CallFailures, assets \in Lists :
                            IF GetUniverseRaises(lf, assets)
                            THEN /\ Ran(op, Append(read, Critical("Trade logic failure")))
                                 /\ UNCHANGED <<symbols, purchased_options, dayBuys>>
                            ELSE
                            LET universe == GetUniverse(lf, assets)
                                started == [purchased |-> purchased_options,
                                            accepted |-> <<>>,
                                            log |-> read \o universe.notes]
                            IN  /\ symbols' = universe.chosen
                                /\ \E chain \in ChainsOf(universe.chosen) :
                                    \E fails \in [Listings(chain) -> OrderFailures] :
                                      LET run == TradeLoop(started, universe.chosen, 1,
                                                           MaxInvest(account.cash),
                                                           [chain |-> chain, fails |-> fails])
                                      IN  /\ purchased_options' = run.purchased
                                          /\ Accept(run.accepted)
                                          /\ Ran(op, run.log)

TradeLogic ==
    /\ lastOp = "idle"
    /\ UNCHANGED <<boughtBefore, input, result, schedVars>>
    /\ TradeCycle("trade_logic", AssetLists)

\* manage_risk (src/main.py:335-361) when list_positions answers one of Lists
RiskCheck(op, Lists) ==
    \E clock \in ClockOutcomes :
      LET open == IsMarketOpen(clock)
      IN  IF ~open.value
          THEN Ran(op, open.log)
          ELSE \E pf \in CallFailures :
                 IF ApiCall(pf).result # "ok"
                 THEN Ran(op, open.log \o <<FetchFailed("positions", ""),
                                            Critical("Failed to list positions")>>)
                 ELSE \E positions \in Lists :
                      \E fails \in [{ positions[i].symbol : i \in 1..Len(positions) }
                                        -> CallFailures] :
                        Ran(op, RiskLoop(Append(open.log,
                                                Event("listed", "", "", Len(positions),
                                                      FALSE, 0, 0)),
                                         positions, 1, fails))

ManageRisk ==
    /\ lastOp = "idle"
    /\ UNCHANGED <<symbols, purchased_options, dayBuys, boughtBefore, input, result, schedVars>>
    /\ RiskCheck("manage_risk", PositionLists)

\* a reset that keeps the set when the summary cannot be fetched
DailyResetKeepOnError ==
    /\ \E af \in CallFailures, pf \in CallFailures :
         LET ok == ApiCall(af).result = "ok" /\ ApiCall(pf).result = "ok"
         IN  /\ Ran("reset_daily_state",
                    IF ok THEN <<Notify("Daily Summary", "")>>
                    ELSE <<FetchFailed("account", ""),
                           Notify("Could not fetch daily summary", "")>>)
             /\ purchased_options' = IF ok THEN {} ELSE purchased_options
    /\ boughtBefore' = boughtBefore \cup { c \in Tracked : dayBuys[c] > 0 }
    /\ dayBuys' = [c \in OptionSymbols |-> 0]
    /\ UNCHANGED symbols

\* reset_daily_state (src/main.py:366-380)
DailyReset ==
    /\ \E af \in CallFailures, pf \in CallFailures :
         Ran("reset_daily_state",
             IF ApiCall(af).result # "ok"
             THEN <<FetchFailed("account", ""), Notify("Could not fetch daily summary", "")>>
             ELSE IF ApiCall(pf).result # "ok"
             THEN <<FetchFailed("positions", ""), Notify("Could not fetch daily summary", "")>>
             ELSE <<Notify("Daily Summary", "")>>)
    /\ purchased_options' = {}
    /\ boughtBefore' = boughtBefore \cup { c \in Tracked : dayBuys[c] > 0 }
    /\ dayBuys' = [c \in OptionSymbols |-> 0]
    /\ UNCHANGED symbols

ResetDailyState ==
    /\ lastOp = "idle"
    /\ UNCHANGED <<input, result, schedVars>>
    /\ DailyReset

\* send_heartbeat (src/main.py:385-393)
Heartbeat ==
    /\ \E af \in CallFailures :
         Ran("send_heartbeat",
             IF ApiCall(af).result = "ok" THEN <<Notify("Bot alive", "")>> ELSE <<>>)
    /\ UNCHANGED <<symbols, purchased_options, dayBuys, boughtBefore>>

SendHeartbeat ==
    /\ lastOp = "idle"
    /\ UNCHANGED <<input, result, schedVars>>
    /\ Heartbeat

\* a refresh job that stores the universe it selected
RefreshUniverseStoring ==
    /\ lastOp = "idle"
    /\ \E lf \in CallFailures, assets \in AssetLists :
         /\ Ran("refresh_universe", GetUniverse(lf, assets).notes)
         /\ symbols' = GetUniverse(lf, assets).chosen
    /\ UNCHANGED <<purchased_options, dayBuys, boughtBefore, input, result, schedVars>>

\* the daily refresh job: get_universe with its result dropped (src/main.py:405)
RefreshUniverse ==
    /\ lastOp = "idle"
    /\ \E lf \in CallFailures, assets \in AssetLists :
         Ran("refresh_universe", GetUniverse(lf, assets).notes)
    /\ UNCHANGED <<symbols, purchased_options, dayBuys, boughtBefore, input, result, schedVars>>

\* the job returned: the main loop sleeps and polls again (src/main.py:456-462)
MainLoopSleep ==
    /\ lastOp # "idle"
    /\ Ran("idle", <<>>)
    /\ UNCHANGED <<symbols, purchased_options, dayBuys, boughtBefore, input, result, schedVars>>

Next ==
    \/ TradeLogic
    \/ ManageRisk
    \/ ResetDailyState
    \/ SendHeartbeat
    \/ RefreshUniverse
    \/ MainLoopSleep

Spec == Init /\ [][Next]_vars

\* ------------------------------------------------------------------------
\* The process as __main__ runs it (src/main.py:437-465): schedule_jobs, the
\* initial run, then the polling loop over the registered jobs.  Time is
\* abstract: a registered job may be due at any poll.  The brokerage holds at
\* most one position, in the tracked contract; it opens it and fills the
\* sells accepted for it in its own time.
\* ------------------------------------------------------------------------
\* daily routines run at most this often
MaxRiskJobs == 2

\* sell orders for one position are counted up to this many
MaxSellOrders == 2

\* list_assets answers one asset: AAA, AAA trading too thinly, or an asset
\* without a symbol
SchedAssetLists ==
    { <<WithSymbol(HiAsset, "AAA")>>,
      <<WithSymbol([HiAsset EXCEPT !.volume = MIN_VOLUME - 1], "AAA")>>,
      <<WithSymbol(HiAsset, NoSymbol)>> }

\* what list_positions answers when the brokerage holds h of the tracked contract
BrokerLists(h) ==
    IF h = 0 THEN { <<>> }
    ELSE { << [symbol |-> "AAA_C", qty |-> h, asset_class |-> k.asset_class,
               avg_entry_price |-> k.avg_entry_price,
               current_price |-> k.current_price] >> :
             k \in { x \in PositionKinds : x.asset_class = "option" } }

\* the registered jobs that run f
JobsOf(f) == { i \in 1..Len(jobs) : jobs[i] = f }

\* the sells of a run reach the brokerage
AcceptSells(lg) ==
    sellOrders' = Min(sellOrders + Cardinality({ k \in 1..Len(lg) :
                                                    /\ lg[k].ev = "submit" /\ lg[k].ok
                                                    /\ lg[k].what = "sell"
                                                    /\ lg[k].symbol = "AAA_C" }),
                      MaxSellOrders)

\* an exception that escapes the loop ends it
LoopBoundaryOutside(raised) ==
    IF raised
    THEN [notes |-> <<Critical("Fatal error in main loop")>>, pc |-> "exit"]
    ELSE [notes |-> <<>>, pc |-> "loop"]

\* try: schedule.run_pending() / except Exception (src/main.py:457-461),
\* inside `while True`
LoopBoundary(raised) ==
    IF raised
    THEN [notes |-> <<Critical("Scheduler job raised exception")>>, pc |-> "loop"]
    ELSE [notes |-> <<>>, pc |-> "loop"]

SchedInit ==
    /\ ProgInit
    /\ input = <<>>
    /\ result = <<>>

\* schedule_jobs (src/main.py:404-408)
ScheduleJobs ==
    /\ pc = "start"
    /\ jobs' = <<"refresh_universe", "daily_routine", "reset_daily_state", "send_heartbeat">>
    /\ pc' = "initial_trade"
    /\ UNCHANGED <<symbols, purchased_options, dayBuys, boughtBefore, lastOp, log,
                   input, result, held, sellOrders>>

\* the initial run (src/main.py:446-449): trade_logic, then manage_risk
InitialTrade ==
    /\ pc = "initial_trade"
    /\ TradeCycle("trade_logic", SchedAssetLists)
    /\ pc' = "initial_risk"
    /\ UNCHANGED <<boughtBefore, input, result, jobs, held, sellOrders>>

InitialRisk ==
    /\ pc = "initial_risk"
    /\ RiskCheck("manage_risk", BrokerLists(held))
    /\ AcceptSells(log')
    /\ pc' = "loop"
    /\ UNCHANGED <<symbols, purchased_options, dayBuys, boughtBefore, input, result,
                   jobs, held>>

\* the refresh job is due: lambda: (print(...), get_universe())
RefreshJob ==
    /\ pc = "loop" /\ lastOp = "idle"
    /\ JobsOf("refresh_universe") # {}
    /\ \E lf \in CallFailures, assets \in SchedAssetLists :
         LET raised == GetUniverseRaises(lf, assets)
             caught == LoopBoundary(raised)
         IN  /\ Ran("refresh_universe",
                    IF raised
                    THEN <<Event("raise", "AttributeError", "", 0, FALSE, 0, 0)>> \o caught.notes
                    ELSE GetUniverse(lf, assets).notes)
             /\ pc' = caught.pc
    /\ UNCHANGED <<symbols, purchased_options, dayBuys, boughtBefore, input, result,
                   jobs, held, sellOrders>>

\* daily_routine (src/main.py:398-402): trade_logic, then one more
\* manage_risk job is registered
DailyRoutineJob ==
    /\ pc = "loop" /\ lastOp = "idle"
    /\ JobsOf("daily_routine") # {}
    /\ Cardinality(JobsOf("manage_risk")) < MaxRiskJobs
    /\ TradeCycle("daily_routine", SchedAssetLists)
    /\ jobs' = Append(jobs, "manage_risk")
    /\ pc' = LoopBoundary(FALSE).pc
    /\ UNCHANGED <<boughtBefore, input, result, held, sellOrders>>

ResetJob ==
    /\ pc = "loop" /\ lastOp = "idle"
    /\ JobsOf("reset_daily_state") # {}
    /\ DailyReset
    /\ pc' = LoopBoundary(FALSE).pc
    /\ UNCHANGED <<input, result, jobs, held, sellOrders>>

HeartbeatJob ==
    /\ pc = "loop" /\ lastOp = "idle"
    /\ JobsOf("send_heartbeat") # {}
    /\ Heartbeat
    /\ pc' = LoopBoundary(FALSE).pc
    /\ UNCHANGED <<input, result, jobs, held, sellOrders>>

\* one of the registered manage_risk jobs is due
RiskJob ==
    /\ pc = "loop" /\ lastOp = "idle"
    /\ JobsOf("manage_risk") # {}
    /\ RiskCheck("manage_risk", BrokerLists(held))
    /\ AcceptSells(log')
    /\ pc' = LoopBoundary(FALSE).pc
    /\ UNCHANGED <<symbols, purchased_options, dayBuys, boughtBefore, input, result,
                   jobs, held>>

\* time.sleep(1), then the next poll (src/main.py:462)
SchedSleep ==
    /\ pc = "loop" /\ lastOp # "idle"
    /\ Ran("idle", <<>>)
    /\ UNCHANGED <<symbols, purchased_options, dayBuys, boughtBefore, input, result,
                   schedVars>>

\* the brokerage opens a position of two contracts
BrokerOpens ==
    /\ held = 0
    /\ held' = 2
    /\ sellOrders' = 0
    /\ UNCHANGED <<symbols, purchased_options, dayBuys, boughtBefore, lastOp, log,
                   input, result, jobs, pc>>

\* the brokerage fills an accepted sell: the position is closed
BrokerFills ==
    /\ held > 0 /\ sellOrders > 0
    /\ held' = 0
    /\ sellOrders' = 0
    /\ UNCHANGED <<symbols, purchased_options, dayBuys, boughtBefore, lastOp, log,
                   input, result, jobs, pc>>

SchedNext ==
    \/ ScheduleJobs
    \/ InitialTrade
    \/ InitialRisk
    \/ RefreshJob
    \/ DailyRoutineJob
    \/ ResetJob
    \/ HeartbeatJob
    \/ RiskJob
    \/ SchedSleep
    \/ BrokerOpens
    \/ BrokerFills

SpecSched == SchedInit /\ [][SchedNext]_vars

\* the loop polls every second and every registered job falls due again and
\* again: a job that is due at infinitely many polls is run
SpecSchedFair ==
    /\ SpecSched
    /\ WF_vars(ScheduleJobs) /\ WF_vars(InitialTrade) /\ WF_vars(InitialRisk)
    /\ WF_vars(SchedSleep)
    /\ SF_vars(RefreshJob) /\ SF_vars(DailyRoutineJob) /\ SF_vars(ResetJob)
    /\ SF_vars(HeartbeatJob) /\ SF_vars(RiskJob)

\* ------------------------------------------------------------------------
\* Properties of the program
\* ------------------------------------------------------------------------
Indices(lg, ev) == { k \in 1..Len(lg) : lg[k].ev = ev }

\* the invocations of submit_order for contract c in a log
Submits(lg, c) == { k \in Indices(lg, "submit") : lg[k].symbol = c }

AcceptedIn(lg, c) == { k \in Submits(lg, c) : lg[k].ok }

\* the buy of c failed on every attempt and was reported
OrderErrors(lg, c) ==
    { k \in Indices(lg, "notify") :
        lg[k].symbol = c /\ lg[k].what \in {"OrderError CALL", "OrderError PUT"} }

ClockSays(lg) == IF lg = <<>> THEN "none" ELSE lg[1].what

\* C1: between two consecutive daily resets the brokerage accepts at most one
\* buy order per contract symbol, however many trade cycles select it; and a
\* trade cycle that sizes a contract at one or more submits a buy for it
\* exactly when no buy of it was accepted since the last reset, so that
\* after reset_daily_state the same symbol is bought again.
C1_OneBuyPerDay ==
    /\ [](\A c \in OptionSymbols : dayBuys[c] <= 1)
    /\ [][lastOp' = "trade_logic" =>
            \A k \in Indices(log', "size") :
                log'[k].qty >= 1 =>
                    (Submits(log', log'[k].symbol) # {} <=> dayBuys[log'[k].symbol] = 0)]_vars

\* AAA_C was bought on an earlier day and is bought again after the reset
C1_Witness ==
    /\ lastOp = "trade_logic"
    /\ "AAA_C" \in boughtBefore
    /\ AcceptedIn(log, "AAA_C") # {}
    /\ dayBuys["AAA_C"] = 1

\* C2: purchased_options holds exactly the contracts with a buy accepted
\* since the last daily reset; a contract whose buy failed on every attempt
\* is not in it; and only reset_daily_state ever removes a contract.
C2_PurchasedSet ==
    /\ [](purchased_options = { c \in OptionSymbols : dayBuys[c] >= 1 })
    /\ [](lastOp = "trade_logic" =>
             \A c \in OptionSymbols : OrderErrors(log, c) # {} => c \notin purchased_options)
    /\ [][purchased_options \subseteq purchased_options'
            \/ lastOp' = "reset_daily_state"]_vars

\* the call failed on every attempt, the put was bought
C2_Witness ==
    /\ lastOp = "trade_logic"
    /\ OrderErrors(log, "AAA_C") # {}
    /\ Cardinality(Submits(log, "AAA_C")) = MAX_RETRIES
    /\ "AAA_C" \notin purchased_options
    /\ "AAA_P" \in purchased_options

\* C3: every quantity trade_logic computes is floor(max_invest / (price * 100)),
\* i.e. qty * price * 100 <= max_invest < (qty + 1) * price * 100; every buy
\* submitted carries that quantity, which is at least 1; a contract sized at 0
\* is never submitted.
C3_Quantity ==
    lastOp = "trade_logic" =>
        /\ \A k \in Indices(log, "size") :
              /\ log[k].price > 0
              /\ log[k].qty * log[k].price * 100 * 100 <= log[k].ref
              /\ log[k].ref < (log[k].qty + 1) * log[k].price * 100 * 100
              /\ log[k].qty = 0 => Submits(log, log[k].symbol) = {}
        /\ \A j \in Indices(log, "submit") :
              /\ log[j].qty >= 1
              /\ \E k \in Indices(log, "size") :
                    log[k].symbol = log[j].symbol /\ log[k].qty = log[j].qty

\* cash 10,000 gives max_invest 200: the call at 1.50 is bought once, the put
\* at 3.00 is sized at 0 and not ordered
C3_Witness ==
    /\ lastOp = "trade_logic"
    /\ \E k \in Indices(log, "size") :
          /\ log[k].symbol = "AAA_C" /\ log[k].price = 150 /\ log[k].qty = 1
          /\ log[k].ref = 200 * 100 * 100
    /\ \E k \in Indices(log, "size") :
          /\ log[k].symbol = "AAA_P" /\ log[k].price = 300 /\ log[k].qty = 0
    /\ \E j \in Submits(log, "AAA_C") : log[j].qty = 1 /\ log[j].ok
    /\ Submits(log, "AAA_P") = {}

\* C4: manage_risk submits a sell for a position it reads iff the position is
\* an option (with a readable entry price) whose loss (entry - current)
\* exceeds STOP_LOSS_PCT of the entry price, strictly; the sell is for the
\* whole quantity held.
C4_StopLoss ==
    lastOp = "manage_risk" =>
        \A k \in Indices(log, "position") :
            /\ Submits(log, log[k].symbol) # {}
                  <=> /\ log[k].what = "option"
                      /\ log[k].ref # ABSENT
                      /\ (log[k].ref - log[k].price) * 100 > STOP_LOSS_PCT * log[k].ref
            /\ \A j \in Submits(log, log[k].symbol) :
                  log[j].what = "sell" /\ log[j].qty = log[k].qty

\* entry 10.00: the position at 6.50 is kept, the one at 6.49 is sold
C4_Witness ==
    /\ lastOp = "manage_risk"
    /\ \E k \in Indices(log, "position") :
          /\ log[k].what = "option" /\ log[k].ref = 1000 /\ log[k].price = 650
          /\ Submits(log, log[k].symbol) = {}
    /\ \E k \in Indices(log, "position") :
          /\ log[k].what = "option" /\ log[k].ref = 1000 /\ log[k].price = 649
          /\ AcceptedIn(log, log[k].symbol) # {}

\* C5: a run of trade_logic or manage_risk whose clock query says closed, or
\* fails on every attempt, submits no order and leaves symbols and
\* purchased_options as they were.
C5_ClockGate ==
    [][(/\ lastOp' \in {"trade_logic", "manage_risk"}
        /\ ClockSays(log') \in {"closed", "failed"})
          => /\ Indices(log', "submit") = {}
             /\ symbols' = symbols
             /\ purchased_options' = purchased_options]_vars

\* the clock query failed with a universe and a purchase in place
C5_Witness ==
    /\ lastOp = "trade_logic"
    /\ ClockSays(log) = "failed"
    /\ symbols # <<>>
    /\ purchased_options # {}
    /\ Indices(log, "submit") = {}

RECURSIVE Picked(_)
Picked(lg) ==
    IF lg = <<>> THEN <<>>
    ELSE IF Head(lg).ev = "pick" THEN <<Head(lg).symbol>> \o Picked(Tail(lg))
    ELSE Picked(Tail(lg))

\* C10: a buy that fails on every attempt is reported through the notifier
\* and does not end the trade cycle: the put of the same underlying is still
\* submitted when it is sized at one or more and not purchased, and
\* choose_atm_call_put is still called for every symbol of the universe.
C10_FailureDoesNotAbort ==
    [][lastOp' = "trade_logic" =>
         \A c \in OptionSymbols :
             (Submits(log', c) # {} /\ AcceptedIn(log', c) = {}) =>
                 /\ \E n \in OrderErrors(log', c) : \A k \in Submits(log', c) : k < n
                 /\ Picked(log') = symbols'
                 /\ \A k \in Indices(log', "size") :
                       (/\ log'[k].what = "PUT"
                        /\ log'[k].qty >= 1
                        /\ log'[k].symbol \notin purchased_options)
                           => Submits(log', log'[k].symbol) # {}]_vars

\* the call of AAA failed on every attempt; its put and the calls and puts
\* of BBB, the next symbol, were still submitted
C10_Witness ==
    /\ lastOp = "trade_logic"
    /\ symbols = <<"AAA", "BBB">>
    /\ OrderErrors(log, "AAA_C") # {}
    /\ AcceptedIn(log, "AAA_P") # {}
    /\ AcceptedIn(log, "BBB_C") # {}
    /\ Picked(log) = <<"AAA", "BBB">>

\* C11 as stated: a run whose clock query failed on every attempt reports the
\* failure through the notifier, whatever the failure was.
C11_Original ==
    (lastOp \in {"trade_logic", "manage_risk"} /\ ClockSays(log) = "failed")
        => Indices(log, "notify") # {}

\* C11 amended: when the clock query fails on every attempt is_market_open
\* answers false, so the run ends there with no order submitted, and the
\* failure is reported (as a critical alert) exactly when its text contains
\* "401"; any other failure is only printed.
C11_ClockFailure ==
    (lastOp \in {"trade_logic", "manage_risk"} /\ ClockSays(log) = "failed")
        => /\ Indices(log, "submit") = {}
           /\ Indices(log, "pick") = {} /\ Indices(log, "position") = {}
           /\ Indices(log, "notify") = IF log[1].symbol = "401" THEN {2} ELSE {}
           /\ \A k \in Indices(log, "notify") :
                  log[k].ok /\ log[k].what = "401 Unauthorized from Alpaca during get_clock()"
           /\ Len(log) = 1 + Cardinality(Indices(log, "notify"))

\* the query timed out on every attempt: the risk check ended unreported
C11_Witness ==
    /\ lastOp = "manage_risk"
    /\ ClockSays(log) = "failed"
    /\ log[1].symbol = "timeout"
    /\ Len(log) = 1

\* C12 as stated: while the brokerage holds the position, the sell orders
\* accepted for it are at most one, so the quantity sold is at most the
\* quantity held.
C12_OneShot ==
    held > 0 => (sellOrders <= 1 /\ sellOrders * held <= held)

\* C13 as stated: once schedule_jobs has run, exactly one manage_risk job is
\* registered.
C13_OneRiskJob ==
    pc # "start" => Cardinality(JobsOf("manage_risk")) = 1

Raised == Indices(log, "raise") # {}

Errors(lg) == { k \in Indices(lg, "error") : lg[k].what = "RiskError" }

\* the position events of the options that breach the stop
Breaching(lg) ==
    { k \in Indices(lg, "position") :
        /\ lg[k].what = "option" /\ lg[k].ref # ABSENT
        /\ (lg[k].ref - lg[k].price) * 100 > STOP_LOSS_PCT * lg[k].ref }

\* C15: an error while manage_risk handles one position (an unreadable field,
\* a sell that fails on every attempt) is caught: every position of the list
\* is still read in the same run, and every breaching position after the
\* error still has its sell submitted.
C15_PositionErrorsIsolated ==
    lastOp = "manage_risk" =>
        \A n \in Indices(log, "listed") :
            /\ Cardinality(Indices(log, "position")) = log[n].qty
            /\ \A e \in Errors(log) :
                  /\ Submits(log, log[e].symbol) # {} => AcceptedIn(log, log[e].symbol) = {}
                  /\ \A j \in Breaching(log) : j > e => Submits(log, log[j].symbol) # {}

\* the sell of the first position fails on every attempt, the second
\* position is sold
C15_Witness ==
    /\ lastOp = "manage_risk"
    /\ Cardinality(Indices(log, "position")) = 2
    /\ \E e \in Errors(log) :
          log[e].symbol = "AAA_C" /\ Cardinality(Submits(log, "AAA_C")) = MAX_RETRIES
    /\ AcceptedIn(log, "AAA_C") = {}
    /\ AcceptedIn(log, "BBB_P") # {}

Fetches(lg, what) == { k \in Indices(lg, "fetch") : lg[k].what = what }

\* the notifications that report a failed data fetch
FetchAlerts ==
    {"Failed to list assets", "Failed to list positions", "Could not fetch daily summary"}

C17_FixedBudget ==
    lastOp = "trade_logic" =>
        \A a \in Indices(log, "account") :
            LET max_invest == log[a].price * RISK_PER_TRADE
            IN  /\ \A k \in Indices(log, "size") : log[k].ref = max_invest
                /\ \A j \in Indices(log, "submit") :
                      \E k \in Indices(log, "size") :
                          /\ log[k].symbol = log[j].symbol
                          /\ log[j].qty * log[k].price * 100 * 100 <= max_invest
                /\ Len(symbols) <= TOP_N_STOCKS
                /\ Committed(log) <= 2 * Len(symbols) * max_invest
                /\ Committed(log) <= 2 * TOP_N_STOCKS * max_invest

\* cash 20,000 gives max_invest 400: the call and the put of the first symbol
\* are bought for 300 each, 600 together, and the second symbol is still
\* sized and bought with the full 400
C17_Witness ==
    /\ lastOp = "trade_logic"
    /\ Len(symbols) = 2
    /\ \A c \in OptionSymbols : AcceptedIn(log, c) # {}
    /\ \A k \in Indices(log, "size") :
          log[k].ref = 400 * 100 * 100 /\ log[k].price = 150 /\ log[k].qty = 2
    /\ Committed(log) = 4 * 300 * 100 * 100

\* C18: reset_daily_state leaves purchased_options empty whenever it returns,
\* also when the account or the positions of the daily summary cannot be
\* fetched on any attempt.
C18_ResetAlwaysClears ==
    [][lastOp' = "reset_daily_state" => purchased_options' = {}]_vars

\* the summary could not be fetched on a day with a purchase: the set is empty
C18_Witness ==
    /\ lastOp = "reset_daily_state"
    /\ Indices(log, "fetch") # {}
    /\ \E k \in Indices(log, "notify") : log[k].what = "Could not fetch daily summary"
    /\ "AAA_C" \in boughtBefore
    /\ purchased_options = {}

\* C19: symbols changes only in a step of trade_logic, which, once it has
\* read a positive cash, sets it to the universe it has just selected (every
\* symbol of it is then picked, in order; none when list_assets failed) and
\* otherwise leaves it; the refresh job, manage_risk, reset_daily_state and send_heartbeat
\* leave symbols as it was, and the refresh job, manage_risk and
\* send_heartbeat leave purchased_options as it was.
C19_SymbolsFrame ==
    [][/\ symbols' # symbols => lastOp' = "trade_logic"
       /\ lastOp' = "trade_logic" =>
             symbols' = IF \E a \in Indices(log', "account") : log'[a].price > 0
                        THEN Picked(log')
                        ELSE symbols
       /\ (lastOp' = "trade_logic" /\ Fetches(log', "assets") # {}) => symbols' = <<>>
       /\ lastOp' \in {"refresh_universe", "manage_risk", "reset_daily_state", "send_heartbeat"}
             => symbols' = symbols
       /\ lastOp' \in {"refresh_universe", "manage_risk", "send_heartbeat"}
             => purchased_options' = purchased_options]_vars

\* the refresh job selected a universe and announced it; symbols and
\* purchased_options are those of the last trade cycle
C19_Witness ==
    /\ lastOp = "refresh_universe"
    /\ \E k \in Indices(log, "notify") : log[k].what = "Universe updated"
    /\ symbols = <<>>
    /\ purchased_options # {}

====
